---------------------------- MODULE Spec2Model ----------------------------
(***************************************************************************)
(* A model of package ii18n: the message formatter's pattern tokenizer     *)
(* (Formatter.format, Formatter.tokenizePattern) and the message source    *)
(* (MessageSource.Translate, TranslateMsg, GetMsgFilePath, LoadMsgs,       *)
(* LoadFallbackMsgs).  Go strings are TLA+ strings; Go's 0-based indices   *)
(* and half-open slices are kept, so s[lo:hi] is SubSeq(s, lo + 1, hi).    *)
(***************************************************************************)
EXTENDS Integers, Sequences, FiniteSets, TLC

VARIABLES
    pattern,    \* tokenizePattern: the argument
    pos,        \* tokenizePattern: local pos
    start,      \* tokenizePattern: local start
    depth,      \* tokenizePattern: local depth
    tokens,     \* tokenizePattern: local tokens, then its result (Nil for nil)
    iters,      \* number of iterations of the scanning loop made so far
    pc,         \* where the call of format is: "call", "loop", "return", "panic"
    fmtRet,     \* what format returned: [val |-> string, err |-> string]
    ms,         \* the MessageSource: its fields, messages being the cache
    files,      \* what loadFunc finds: file name -> table, or the nil table
    succeeded,  \* the <<category, lang>> of the TranslateMsg calls that returned no error
    ret,        \* the last call on the MessageSource: arguments and results
    inflight    \* the TranslateMsg calls that run concurrently, per goroutine

tokVars == <<pattern, pos, start, depth, tokens, iters, pc, fmtRet>>

srcVars == <<ms, files, succeeded, ret, inflight>>

vars == <<pattern, pos, start, depth, tokens, iters, pc, fmtRet,
          ms, files, succeeded, ret, inflight>>

\* Go's nil for a slice or a map, and for an error.
Nil == "<nil>"
NoErr == "<no error>"

-----------------------------------------------------------------------------
(* Go string primitives *)

\* s[i] as a one-character string, i 0-based.
CharAt(s, i) == SubSeq(s, i + 1, i + 1)

\* s[lo:hi].
Slice(s, lo, hi) == SubSeq(s, lo + 1, hi)

\* Whether Go evaluates s[lo:hi] without a run-time panic.
SliceOK(s, lo, hi) == 0 <= lo /\ lo <= hi /\ hi <= Len(s)

\* Index with the length of s, not -1, for a c that does not occur.
IndexOrLen(s, c) ==
    LET hits == {i \in 0..(Len(s) - 1) : CharAt(s, i) = c}
    IN  IF hits = {} THEN Len(s)
        ELSE CHOOSE i \in hits : \A j \in hits : i <= j

\* strings.Index(s, c) for a one-character c: the first index of c, or -1.
Index(s, c) ==
    LET hits == {i \in 0..(Len(s) - 1) : CharAt(s, i) = c}
    IN  IF hits = {} THEN -1
        ELSE CHOOSE i \in hits : \A j \in hits : i <= j

\* strings.Join(elems, "").
RECURSIVE Join(_)
Join(elems) ==
    IF elems = <<>> THEN "" ELSE Head(elems) \o Join(Tail(elems))

\* strings.Split(s, sep) for a one-character sep.
RECURSIVE Split(_, _)
Split(s, sep) ==
    LET i == Index(s, sep)
    IN  IF i = -1 THEN <<s>>
        ELSE <<Slice(s, 0, i)>> \o Split(Slice(s, i + 1, Len(s)), sep)

\* strings.Replace(s, old, new, -1) for a one-character old.
RECURSIVE Replace(_, _, _)
Replace(s, old, new) ==
    IF s = "" THEN ""
    ELSE (IF CharAt(s, 0) = old THEN new ELSE CharAt(s, 0))
             \o Replace(Slice(s, 1, Len(s)), old, new)

\* elems[i], i 0-based.
At(elems, i) == elems[i + 1]

-----------------------------------------------------------------------------
(* TMsgs, a Go map[string]string: isNil tells the nil map from an empty one *)

EmptyKV == [k \in {} |-> ""]

NilMsgs == [isNil |-> TRUE, kv |-> EmptyKV]

MakeMsgs(kv) == [isNil |-> FALSE, kv |-> kv]

\* v, ok := msgs[key]: ok.  Reading a nil map finds nothing.
HasKey(msgs, key) == ~msgs.isNil /\ key \in DOMAIN msgs.kv

\* v, ok := msgs[key]: v, the empty string when the key is absent.
ValueOf(msgs, key) == IF HasKey(msgs, key) THEN msgs.kv[key] ELSE ""

\* msgs[key] = val on a map that is not nil.
SetKey(msgs, key, val) ==
    [msgs EXCEPT !.kv = [k \in (DOMAIN msgs.kv) \cup {key} |->
                            IF k = key THEN val ELSE msgs.kv[k]]]

\* m[key] = val on the cache, a map from cache keys to TMsgs.
Store(m, key, val) ==
    [k \in (DOMAIN m) \cup {key} |-> IF k = key THEN val ELSE m[k]]

-----------------------------------------------------------------------------
(* The injected loader *)

\* How one call of loadFunc goes: it returns what the file holds, or it fails
\* and returns no table, or it fails and returns a table all the same.
Faults == {"none", "err_nil", "err_tbl"}

LoaderError == "loader: read failed"

\* loadFunc(filename): the table and the error.  A file the loader does not
\* know yields the nil table.
loadFunc(filename, fault) ==
    LET found == IF filename \in DOMAIN files THEN files[filename] ELSE NilMsgs
    IN  [msgs |-> IF fault = "err_nil" THEN NilMsgs ELSE found,
         err |-> IF fault = "none" THEN NoErr ELSE LoaderError]

-----------------------------------------------------------------------------
(* MessageSource *)

\* GetMsgFilePath of a source with base path, file map and file suffix given.
MsgFilePath(basePath, fileMap, fileSuffix, category, lang) ==
    LET suffix == At(Split(category, "."), 1)
        path == basePath \o "/" \o lang \o "/"
    IN  IF suffix \notin DOMAIN fileMap
        THEN path \o ""
        ELSE path \o Replace(suffix, "\\", "/")
                  \o (IF fileSuffix # "" THEN "." \o fileSuffix ELSE "")

GetMsgFilePath(category, lang) ==
    MsgFilePath(ms.BasePath, ms.FileMap, ms.fileSuffix, category, lang)

\* MergeLoop with the fallback value taken whenever it is not empty.
RECURSIVE MergeLoopFallbackWins(_, _, _)
MergeLoopFallbackWins(msgs, fallbackMsgs, keys) ==
    IF keys = {} THEN msgs
    ELSE LET key == CHOOSE k \in keys : TRUE
             val == fallbackMsgs.kv[key]
             next == IF val # "" THEN SetKey(msgs, key, val) ELSE msgs
         IN  MergeLoopFallbackWins(next, fallbackMsgs, keys \ {key})

\* The loop of LoadFallbackMsgs over the keys of fallbackMsgs still to visit.
RECURSIVE MergeLoop(_, _, _)
MergeLoop(msgs, fallbackMsgs, keys) ==
    IF keys = {} THEN msgs
    ELSE LET key == CHOOSE k \in keys : TRUE
             val == fallbackMsgs.kv[key]
             v == ValueOf(msgs, key)
             ok == HasKey(msgs, key)
             next == IF val # "" /\ (~ok \/ v = "")
                     THEN SetKey(msgs, key, fallbackMsgs.kv[key])
                     ELSE msgs
         IN  MergeLoop(next, fallbackMsgs, keys \ {key})

FallbackMissingError(category, originalMsgFile, fallbackMsgFile) ==
    "The message file for category " \o category \o " does not exist: "
        \o originalMsgFile \o " Fallback file does not exist as well: "
        \o fallbackMsgFile

\* FallbackResult without the merge: a table that was loaded is returned as
\* it is.
FallbackResultNoMerge(category, fallbackLang, msgs, originalMsgFile, fallbackMsgFile, fallbackMsgs) ==
    IF /\ msgs.isNil
       /\ fallbackMsgs.isNil
       /\ fallbackLang # ms.SourceLang
       /\ fallbackLang # Slice(ms.SourceLang, 0, 2)
    THEN [msgs |-> NilMsgs,
          err |-> FallbackMissingError(category, originalMsgFile,
                                       fallbackMsgFile)]
    ELSE IF msgs.isNil
    THEN [msgs |-> fallbackMsgs, err |-> NoErr]
    ELSE [msgs |-> msgs, err |-> NoErr]

\* FallbackResult that fails whenever neither file yields a table, whatever
\* SourceLang is.
FallbackResultStrict(category, fallbackLang, msgs, originalMsgFile, fallbackMsgFile, fallbackMsgs) ==
    IF msgs.isNil /\ fallbackMsgs.isNil
    THEN [msgs |-> NilMsgs,
          err |-> FallbackMissingError(category, originalMsgFile,
                                       fallbackMsgFile)]
    ELSE IF msgs.isNil
    THEN [msgs |-> fallbackMsgs, err |-> NoErr]
    ELSE IF ~fallbackMsgs.isNil
    THEN [msgs |-> MergeLoop(msgs, fallbackMsgs, DOMAIN fallbackMsgs.kv),
          err |-> NoErr]
    ELSE [msgs |-> msgs, err |-> NoErr]

\* LoadFallbackMsgs once the fallback file is loaded: fallbackMsgs is what
\* loadFunc returned for fallbackMsgFile, its error dropped.
FallbackResult(category, fallbackLang, msgs, originalMsgFile, fallbackMsgFile, fallbackMsgs) ==
    IF /\ msgs.isNil
       /\ fallbackMsgs.isNil
       /\ fallbackLang # ms.SourceLang
       /\ fallbackLang # Slice(ms.SourceLang, 0, 2)
    THEN [msgs |-> NilMsgs,
          err |-> FallbackMissingError(category, originalMsgFile,
                                       fallbackMsgFile)]
    ELSE IF msgs.isNil
    THEN [msgs |-> fallbackMsgs, err |-> NoErr]
    ELSE IF ~fallbackMsgs.isNil
    THEN [msgs |-> MergeLoop(msgs, fallbackMsgs, DOMAIN fallbackMsgs.kv),
          err |-> NoErr]
    ELSE [msgs |-> msgs, err |-> NoErr]

\* LoadFallbackMsgs that hands on the error of its call of loadFunc.
LoadFallbackMsgsPropagates(category, fallbackLang, msgs, originalMsgFile, fault) ==
    IF fault # "none"
    THEN [msgs |-> NilMsgs, err |-> LoaderError]
    ELSE FallbackResult(category, fallbackLang, msgs, originalMsgFile,
                        GetMsgFilePath(category, fallbackLang),
                        loadFunc(GetMsgFilePath(category, fallbackLang),
                                 fault).msgs)

\* LoadFallbackMsgs that takes a failed call of loadFunc for a missing file.
LoadFallbackMsgsDropsTable(category, fallbackLang, msgs, originalMsgFile, fault) ==
    FallbackResult(category, fallbackLang, msgs, originalMsgFile,
                   GetMsgFilePath(category, fallbackLang),
                   IF fault # "none" THEN NilMsgs
                   ELSE loadFunc(GetMsgFilePath(category, fallbackLang),
                                 fault).msgs)

\* LoadFallbackMsgs, fault being how its call of loadFunc goes.
LoadFallbackMsgs(category, fallbackLang, msgs, originalMsgFile, fault) ==
    FallbackResult(category, fallbackLang, msgs, originalMsgFile,
                   GetMsgFilePath(category, fallbackLang),
                   loadFunc(GetMsgFilePath(category, fallbackLang), fault).msgs)

MissingError(category, msgFile) ==
    "the message file for category " \o category \o " does not exist: "
        \o msgFile

\* NoFallback that takes a missing file for an empty result.
NoFallbackLenient(category, msgFile, msgs) ==
    [msgs |-> msgs, err |-> NoErr, loads |-> 1]

\* The last branch of LoadMsgs: lang is generic and is not the generic form
\* of SourceLang, so no fallback file is read.
NoFallback(category, msgFile, msgs) ==
    IF msgs.isNil
    THEN [msgs |-> NilMsgs, err |-> MissingError(category, msgFile),
          loads |-> 1]
    ELSE [msgs |-> msgs, err |-> NoErr, loads |-> 1]

\* The end of LoadMsgs after LoadFallbackMsgs returned r: the second call of
\* loadFunc has been made.
AfterFallback(r) ==
    [msgs |-> IF r.err # NoErr THEN NilMsgs ELSE r.msgs, err |-> r.err,
     loads |-> 2]

\* LoadMsgs once the file of lang is loaded: first is what loadFunc returned
\* for msgFile, f2 how the second call of loadFunc goes.
AfterFirstLoad(category, lang, msgFile, first, f2) ==
    IF first.err # NoErr
    THEN [msgs |-> NilMsgs, err |-> first.err, loads |-> 1]
    ELSE IF lang # Slice(lang, 0, 2)
    THEN AfterFallback(LoadFallbackMsgs(category, Slice(lang, 0, 2),
                                        first.msgs, msgFile, f2))
    ELSE IF lang = Slice(ms.SourceLang, 0, 2)
    THEN AfterFallback(LoadFallbackMsgs(category, ms.SourceLang, first.msgs,
                                        msgFile, f2))
    ELSE NoFallback(category, msgFile, first.msgs)

\* LoadMsgs, f1 and f2 being how its first and second call of loadFunc go:
\* the table, the error, and the number of calls of loadFunc it made.
LoadMsgs(category, lang, f1, f2) ==
    AfterFirstLoad(category, lang, GetMsgFilePath(category, lang),
                   loadFunc(GetMsgFilePath(category, lang), f1), f2)

\* The cache key TranslateMsg derives.
CacheKey(category, lang) ==
    LET cates == Split(category, ".")
    IN  At(cates, 0) \o "/" \o lang \o "/" \o At(cates, 1)

\* _, ok := ms.messages[key]: ok.
Cached(messages, key) == key \in DOMAIN messages

\* LoadFailed with the failure remembered: the nil table is stored.
LoadFailedStored(messages, key, err) ==
    [messages |-> Store(messages, key, NilMsgs), val |-> "", err |-> err]

\* What TranslateMsg does when LoadMsgs failed with err.
LoadFailed(messages, key, err) ==
    [messages |-> messages, val |-> "", err |-> err]

\* Lookup that drops the cache entry of a key whose message is missing.
LookupForgets(messages, key, message) ==
    LET msg == ValueOf(messages[key], message)
        ok == HasKey(messages[key], message)
    IN  IF ok /\ msg # ""
        THEN [messages |-> messages, val |-> msg, err |-> NoErr]
        ELSE [messages |-> [k \in (DOMAIN messages) \ {key} |-> messages[k]],
              val |-> "", err |-> NoErr]

\* Lookup that adds the empty value for a missing message to the cached
\* table and keeps its other keys.
LookupKeeps(messages, key, message) ==
    LET msg == ValueOf(messages[key], message)
        ok == HasKey(messages[key], message)
    IN  IF ok /\ msg # ""
        THEN [messages |-> messages, val |-> msg, err |-> NoErr]
        ELSE [messages |-> Store(messages, key,
                                 SetKey(MakeMsgs(messages[key].kv), message,
                                        "")),
              val |-> "", err |-> NoErr]

\* What TranslateMsg does with the cache once the key is in it.
Lookup(messages, key, message) ==
    LET msg == ValueOf(messages[key], message)
        ok == HasKey(messages[key], message)
    IN  IF ok /\ msg # ""
        THEN [messages |-> messages, val |-> msg, err |-> NoErr]
        ELSE [messages |-> Store(messages, key,
                                 MakeMsgs([k \in {message} |-> ""])),
              val |-> "", err |-> NoErr]

\* The outcome out of a call that made loads calls of loadFunc, which went
\* as faults says.
WithLoads(out, loads, faults) ==
    [messages |-> out.messages, val |-> out.val, err |-> out.err,
     loads |-> loads, faults |-> faults]

\* TranslateMsg when the cache had no entry for key and LoadMsgs returned r.
AfterLoad(messages, key, message, r, f1, f2) ==
    WithLoads(IF r.err # NoErr
              THEN LoadFailed(messages, key, r.err)
              ELSE Lookup(Store(messages, key, r.msgs), key, message),
              r.loads, SubSeq(<<f1, f2>>, 1, r.loads))

\* TranslateMsg with the cache key derived.
TranslateMsgAt(messages, key, category, message, lang, f1, f2) ==
    IF ~Cached(messages, key)
    THEN AfterLoad(messages, key, message, LoadMsgs(category, lang, f1, f2),
                   f1, f2)
    ELSE WithLoads(Lookup(messages, key, message), 0, <<>>)

\* TranslateMsg on a source whose cache is messages: the cache it leaves, the
\* value and the error it returns, the calls of loadFunc it made and how
\* they went.
TranslateMsgOn(messages, category, message, lang, f1, f2) ==
    TranslateMsgAt(messages, CacheKey(category, lang), category, message,
                   lang, f1, f2)

\* The record of a call, kept in ret.
Call(op, category, message, lang, val, msgs, err, loads, faults) ==
    [op |-> op, category |-> category, message |-> message, lang |-> lang,
     val |-> val, msgs |-> msgs, err |-> err, loads |-> loads,
     faults |-> faults]

NoCall == Call("none", "", "", "", "", NilMsgs, NoErr, 0, <<>>)

\* No TranslateMsg call runs concurrently with another.
NoneInFlight == <<>>

\* The source and the record of the call once TranslateMsg has returned r,
\* op being the method that was called.
Returned(op, category, message, lang, r) ==
    /\ ms' = [ms EXCEPT !.messages = r.messages]
    /\ ret' = Call(op, category, message, lang, r.val, NilMsgs, r.err,
                   r.loads, r.faults)
    /\ succeeded' = IF r.err = NoErr
                    THEN succeeded \cup {<<category, lang>>}
                    ELSE succeeded
    /\ UNCHANGED <<files, inflight>>

\* MessageSource.TranslateMsg(category, message, lang).
TranslateMsg(category, message, lang, f1, f2) ==
    Returned("TranslateMsg", category, message, lang,
             TranslateMsgOn(ms.messages, category, message, lang, f1, f2))

\* Translate without the test of line 32: it always goes to TranslateMsg.
TranslateAlways(category, message, lang, f1, f2) ==
    Returned("Translate", category, message, lang,
             TranslateMsgOn(ms.messages, category, message, lang, f1, f2))

\* MessageSource.Translate(category, message, lang).
Translate(category, message, lang, f1, f2) ==
    IF ms.ForceTranslation \/ lang # ms.SourceLang
    THEN Returned("Translate", category, message, lang,
                  TranslateMsgOn(ms.messages, category, message, lang, f1, f2))
    ELSE /\ ret' = Call("Translate", category, message, lang, "", NilMsgs,
                        NoErr, 0, <<>>)
         /\ UNCHANGED <<ms, files, succeeded, inflight>>

\* The record of a direct call of LoadMsgs that returned r.
LoadReturned(category, lang, r, f1, f2) ==
    /\ ret' = Call("LoadMsgs", category, "", lang, "", r.msgs, r.err, r.loads,
                   SubSeq(<<f1, f2>>, 1, r.loads))
    /\ UNCHANGED <<ms, files, succeeded, inflight>>

\* MessageSource.LoadMsgs(category, lang), called directly.
LoadMsgsCall(category, lang, f1, f2) ==
    LoadReturned(category, lang, LoadMsgs(category, lang, f1, f2), f1, f2)

\* MessageSource.GetMsgFilePath(category, lang), called directly.
GetMsgFilePathCall(category, lang) ==
    /\ ret' = Call("GetMsgFilePath", category, "", lang,
                   GetMsgFilePath(category, lang), NilMsgs, NoErr, 0, <<>>)
    /\ UNCHANGED <<ms, files, succeeded, inflight>>

-----------------------------------------------------------------------------
(* TranslateMsg calls that run concurrently, step by step *)

\* A TranslateMsg call of a goroutine: its arguments, where it is, the table
\* of its first loader call, its local val, and what it returned.
NewCall(category, message, lang) ==
    [category |-> category, message |-> message, lang |-> lang,
     pc |-> "check", first |-> NilMsgs, val |-> NilMsgs, out |-> "",
     err |-> NoErr]

\* What the steps of a goroutine leave alone besides ms and inflight.
RaceFrame == UNCHANGED <<files, succeeded, ret>>

\* Whether LoadMsgs calls LoadFallbackMsgs for lang.
NeedsFallback(lang) ==
    lang # Slice(lang, 0, 2) \/ lang = Slice(ms.SourceLang, 0, 2)

\* The call c once LoadMsgs has returned r.
RaceLoaded(c, r) ==
    IF r.err # NoErr
    THEN [c EXCEPT !.pc = "done", !.out = "", !.err = r.err]
    ELSE [c EXCEPT !.pc = "store", !.val = r.msgs]

\* The test of the cache.
RaceCheck(g) ==
    /\ inflight[g].pc = "check"
    /\ inflight' =
          [inflight EXCEPT ![g].pc =
              IF Cached(ms.messages,
                        CacheKey(inflight[g].category, inflight[g].lang))
              THEN "lookup" ELSE "load"]
    /\ UNCHANGED ms
    /\ RaceFrame

\* The first call of loadFunc of LoadMsgs, and the rest of LoadMsgs when it
\* reads no fallback file.
RaceLoad(g) ==
    /\ inflight[g].pc = "load"
    /\ inflight' =
          [inflight EXCEPT ![g] =
              IF NeedsFallback(inflight[g].lang)
              THEN [inflight[g] EXCEPT
                       !.pc = "fallback",
                       !.first = loadFunc(GetMsgFilePath(inflight[g].category,
                                                         inflight[g].lang),
                                          "none").msgs]
              ELSE RaceLoaded(inflight[g],
                              LoadMsgs(inflight[g].category, inflight[g].lang,
                                       "none", "none"))]
    /\ UNCHANGED ms
    /\ RaceFrame

\* LoadFallbackMsgs with its call of loadFunc, and the end of LoadMsgs.
RaceFallback(g) ==
    /\ inflight[g].pc = "fallback"
    /\ inflight' =
          [inflight EXCEPT ![g] =
              RaceLoaded(inflight[g],
                         AfterFirstLoad(inflight[g].category, inflight[g].lang,
                                        GetMsgFilePath(inflight[g].category,
                                                       inflight[g].lang),
                                        [msgs |-> inflight[g].first,
                                         err |-> NoErr],
                                        "none"))]
    /\ UNCHANGED ms
    /\ RaceFrame

\* ms.messages[key] = val.
RaceStore(g) ==
    /\ inflight[g].pc = "store"
    /\ ms' = [ms EXCEPT !.messages =
                 Store(ms.messages,
                       CacheKey(inflight[g].category, inflight[g].lang),
                       inflight[g].val)]
    /\ inflight' = [inflight EXCEPT ![g].pc = "lookup"]
    /\ RaceFrame

\* msg, ok := ms.messages[key][message], and the return of msg.
RaceLookup(g) ==
    /\ inflight[g].pc = "lookup"
    /\ inflight' =
          [inflight EXCEPT ![g] =
              IF ValueOf(ms.messages[CacheKey(inflight[g].category,
                                              inflight[g].lang)],
                         inflight[g].message) # ""
              THEN [inflight[g] EXCEPT
                       !.pc = "done",
                       !.out = ValueOf(
                                   ms.messages[CacheKey(inflight[g].category,
                                                        inflight[g].lang)],
                                   inflight[g].message)]
              ELSE [inflight[g] EXCEPT !.pc = "negstore"]]
    /\ UNCHANGED ms
    /\ RaceFrame

\* RaceNegStore that adds the empty value to the table the cache holds and
\* keeps its other keys.
RaceNegStoreKeeps(g) ==
    /\ inflight[g].pc = "negstore"
    /\ ms' = [ms EXCEPT !.messages =
                 Store(ms.messages,
                       CacheKey(inflight[g].category, inflight[g].lang),
                       SetKey(MakeMsgs(
                                  ms.messages[CacheKey(inflight[g].category,
                                                       inflight[g].lang)].kv),
                              inflight[g].message, ""))]
    /\ inflight' = [inflight EXCEPT ![g].pc = "done", ![g].out = ""]
    /\ RaceFrame

\* ms.messages[key] = TMsgs{message: ""}, and the return of "".
RaceNegStore(g) ==
    /\ inflight[g].pc = "negstore"
    /\ ms' = [ms EXCEPT !.messages =
                 Store(ms.messages,
                       CacheKey(inflight[g].category, inflight[g].lang),
                       MakeMsgs([k \in {inflight[g].message} |-> ""]))]
    /\ inflight' = [inflight EXCEPT ![g].pc = "done", ![g].out = ""]
    /\ RaceFrame

-----------------------------------------------------------------------------
(* The sources, files and calls of the MessageSource runs *)

Langs == {"en", "en-US", "fr"}

SourceLangs == {"en-GB", "en", "fr"}


Keys == {"hello", "bye"}

Values == {"", "Hello", "Hallo"}

FileMaps == {EmptyKV, [s \in {"msg"} |-> "messages.json"]}

\* Every table over Keys and Values.
Tables ==
    UNION {{MakeMsgs(kv) : kv \in [ks -> Values]} : ks \in SUBSET Keys}

\* The tables of the runs that go through the cache.
FewTables ==
    {MakeMsgs([k \in {"hello"} |-> "Hello"]),
     MakeMsgs([k \in Keys |-> IF k = "hello" THEN "" ELSE "Hallo"])}

\* The sources construction yields: the cache is empty.
Sources(sourceLangs, forces, fileMaps) ==
    {[SourceLang |-> sl, ForceTranslation |-> ft, BasePath |-> "i18n",
      FileMap |-> fm, fileSuffix |-> "json", messages |-> EmptyKV] :
        sl \in sourceLangs, ft \in forces, fm \in fileMaps}

\* The languages LoadMsgs reads a file of when it is asked for lang.
LangsRead(m, lang) ==
    {lang} \cup (IF lang # Slice(lang, 0, 2) THEN {Slice(lang, 0, 2)}
                 ELSE IF lang = Slice(m.SourceLang, 0, 2) THEN {m.SourceLang}
                 ELSE {})

\* The names of the files a source asks the loader for in the calls given
\* as <<category, lang>>.
FileNames(m, calls) ==
    UNION {{MsgFilePath(m.BasePath, m.FileMap, m.fileSuffix, c[1], l) :
               l \in LangsRead(m, c[2])} : c \in calls}

\* The loaders: each file holds one of tables or is missing.  LoadMsgs reads
\* two files at most, so at most two files exist at once.
FileSystems(names, tables) ==
    LET some == {S \in SUBSET names : Cardinality(S) <= 2}
        held == UNION {[S -> tables] : S \in some}
    IN  {[n \in names |-> IF n \in DOMAIN g THEN g[n] ELSE NilMsgs] :
            g \in held}

\* The formatter while the MessageSource runs: never called.
TokIdle ==
    /\ pattern = ""
    /\ pos = 0
    /\ start = 0
    /\ depth = 0
    /\ tokens = <<>>
    /\ iters = 0
    /\ pc = "call"
    /\ fmtRet = [val |-> "", err |-> NoErr]

\* The <<category, lang>> of the calls that go through the cache.
CacheCalls == {<<"app.msg", "en-US">>, <<"app.msg", "fr">>, <<"sys.err", "fr">>}

Init ==
    /\ TokIdle
    /\ ms \in Sources({"fr"}, BOOLEAN, {EmptyKV})
    /\ files \in FileSystems(FileNames(ms, CacheCalls), FewTables)
    /\ succeeded = {}
    /\ ret = NoCall
    /\ inflight = NoneInFlight

\* The ways the calls of loadFunc of one LoadMsgs can go: no second call is
\* made after a failed first.
FaultPairs ==
    {<<"none", f2>> : f2 \in Faults} \cup {<<f1, "none">> : f1 \in Faults}

\* The same for one TranslateMsg: no call is made when the cache holds the key.
FaultPairsOf(category, lang) ==
    IF Cached(ms.messages, CacheKey(category, lang))
    THEN {<<"none", "none">>}
    ELSE FaultPairs

DoTranslateMsg ==
    \E c \in CacheCalls, message \in Keys :
        \E f \in FaultPairsOf(c[1], c[2]) :
            /\ TranslateMsg(c[1], message, c[2], f[1], f[2])
            /\ UNCHANGED tokVars

DoTranslate ==
    \E c \in CacheCalls, message \in Keys :
        \E f \in FaultPairsOf(c[1], c[2]) :
            /\ Translate(c[1], message, c[2], f[1], f[2])
            /\ UNCHANGED tokVars

Next == DoTranslateMsg \/ DoTranslate

Spec == Init /\ [][Next]_vars

\* The same calls with a loader that never fails.
DoTranslateMsgReliable ==
    \E c \in CacheCalls, message \in Keys :
        /\ TranslateMsg(c[1], message, c[2], "none", "none")
        /\ UNCHANGED tokVars

DoTranslateReliable ==
    \E c \in CacheCalls, message \in Keys :
        /\ Translate(c[1], message, c[2], "none", "none")
        /\ UNCHANGED tokVars

NextReliable == DoTranslateMsgReliable \/ DoTranslateReliable

SpecReliable == Init /\ [][NextReliable]_vars

\* The <<category, lang>> of the direct calls of LoadMsgs.
LoadCalls == {<<"app.msg", l>> : l \in Langs}

LoadInit ==
    /\ TokIdle
    /\ ms \in Sources(SourceLangs, {FALSE}, FileMaps)
    /\ files \in FileSystems(FileNames(ms, LoadCalls), Tables)
    /\ succeeded = {}
    /\ ret = NoCall
    /\ inflight = NoneInFlight

DoLoadMsgs ==
    \E c \in LoadCalls, f \in FaultPairs :
        /\ LoadMsgsCall(c[1], c[2], f[1], f[2])
        /\ UNCHANGED tokVars

LoadNext == DoLoadMsgs

SpecLoad == LoadInit /\ [][LoadNext]_vars

\* The sources of the direct calls of GetMsgFilePath: with and without a
\* base path, a file suffix, and FileMap entries for the suffixes asked for.
PathSources ==
    {[SourceLang |-> "en-US", ForceTranslation |-> FALSE, BasePath |-> bp,
      FileMap |-> fm, fileSuffix |-> fs, messages |-> EmptyKV] :
        bp \in {"", "i18n", "/srv/i18n"},
        fm \in FileMaps \cup {[s \in {"a\\b"} |-> "ab.json"]},
        fs \in {"", "json"}}

\* The <<category, lang>> of the direct calls of GetMsgFilePath.
PathCalls == {"app.msg", "app.a\\b", "sys.err"} \X {"en", "en-US", "fr"}

PathInit ==
    /\ TokIdle
    /\ ms \in PathSources
    /\ files = EmptyKV
    /\ succeeded = {}
    /\ ret = NoCall
    /\ inflight = NoneInFlight

DoGetMsgFilePath ==
    \E c \in PathCalls :
        /\ GetMsgFilePathCall(c[1], c[2])
        /\ UNCHANGED tokVars

PathNext == DoGetMsgFilePath

SpecPath == PathInit /\ [][PathNext]_vars

\* The goroutines that call TranslateMsg concurrently.
Goroutines == {1, 2}

\* The <<category, lang>> the concurrent calls are made for.
RaceCalls == {<<"app.msg", "en-US">>, <<"app.msg", "fr">>}

\* Two calls for the same category and lang, each for a message of its own
\* choice, on a source whose cache is empty and a loader that never fails.
RaceInit ==
    /\ TokIdle
    /\ ms \in Sources({"fr"}, {FALSE}, {EmptyKV})
    /\ files \in FileSystems(FileNames(ms, RaceCalls), FewTables)
    /\ succeeded = {}
    /\ ret = NoCall
    /\ inflight \in {[g \in Goroutines |-> NewCall(c[1], m[g], c[2])] :
                         c \in RaceCalls, m \in [Goroutines -> Keys]}

DoRaceCheck == \E g \in Goroutines : RaceCheck(g) /\ UNCHANGED tokVars

DoRaceLoad == \E g \in Goroutines : RaceLoad(g) /\ UNCHANGED tokVars

DoRaceFallback == \E g \in Goroutines : RaceFallback(g) /\ UNCHANGED tokVars

DoRaceStore == \E g \in Goroutines : RaceStore(g) /\ UNCHANGED tokVars

DoRaceLookup == \E g \in Goroutines : RaceLookup(g) /\ UNCHANGED tokVars

DoRaceNegStore == \E g \in Goroutines : RaceNegStore(g) /\ UNCHANGED tokVars

RaceNext ==
    \/ DoRaceCheck
    \/ DoRaceLoad
    \/ DoRaceFallback
    \/ DoRaceStore
    \/ DoRaceLookup
    \/ DoRaceNegStore

SpecRace == RaceInit /\ [][RaceNext]_vars

-----------------------------------------------------------------------------
(* What the documentation says of the MessageSource *)

\* What the loader holds for the file of category and lang.
FileOf(category, lang) == loadFunc(GetMsgFilePath(category, lang), "none").msgs

\* No call of loadFunc of the last call failed.
NoFault == \A i \in 1..Len(ret.faults) : ret.faults[i] = "none"

\* How the i-th call of loadFunc of the call recorded in r went.
FaultAt(r, i) == IF i <= Len(r.faults) THEN r.faults[i] ELSE "none"

\* The table primary with its gaps filled from fallback: a key of primary
\* keeps its value unless that is empty and fallback has a value that is
\* not; a key fallback alone has is added when its value is not empty; and
\* the result is fallback when there is no primary table.
Merged(primary, fallback) ==
    IF primary.isNil THEN fallback
    ELSE MakeMsgs(
        [k \in (DOMAIN primary.kv)
                  \cup {j \in DOMAIN fallback.kv : fallback.kv[j] # ""} |->
            IF ValueOf(primary, k) # "" THEN primary.kv[k]
            ELSE IF ValueOf(fallback, k) # "" THEN fallback.kv[k]
            ELSE ""])

\* C1: TranslateMsg(category, k, lang) returns (v, nil) whenever the table
\* LoadMsgs produces for (category, lang) maps k to a value v that is not
\* empty, whatever calls were made before.
C1_KnownKeyTranslated ==
    (ret.op = "TranslateMsg" /\ NoFault) =>
        LET t == LoadMsgs(ret.category, ret.lang, "none", "none")
        IN  (t.err = NoErr /\ ValueOf(t.msgs, ret.message) # "") =>
                /\ ret.val = ValueOf(t.msgs, ret.message)
                /\ ret.err = NoErr

\* C2: once a TranslateMsg for a (category, lang) has returned without
\* error, no later TranslateMsg for that (category, lang) calls the loader.
C2_NoReload ==
    [][(ret'.op \in {"TranslateMsg", "Translate"}
            /\ <<ret'.category, ret'.lang>> \in succeeded)
        => ret'.loads = 0]_vars

\* A call that found its key missing in a table cached by an earlier call.
C2_Witness ==
    /\ ret.op = "TranslateMsg"
    /\ <<ret.category, ret.lang>> \in succeeded
    /\ ret.loads = 0
    /\ ret.val = ""
    /\ ms.messages[CacheKey(ret.category, ret.lang)]
           = MakeMsgs([k \in {ret.message} |-> ""])

\* C3: when LoadMsgs fails inside TranslateMsg, TranslateMsg returns the
\* empty string and that error and leaves the cache as it was, with no entry
\* for the key; a call that finds no entry calls the loader, and when
\* LoadMsgs then succeeds so does the call, and the entry is there.
C3_FailedLoadNotCached ==
    [][ret'.op = "TranslateMsg" =>
        LET key == CacheKey(ret'.category, ret'.lang)
            r == LoadMsgs(ret'.category, ret'.lang, FaultAt(ret', 1),
                          FaultAt(ret', 2))
        IN  /\ ~Cached(ms.messages, key) => ret'.loads >= 1
            /\ (ret'.loads >= 1 /\ r.err # NoErr) =>
                  /\ ret'.val = ""
                  /\ ret'.err = r.err
                  /\ ms'.messages = ms.messages
                  /\ ~Cached(ms'.messages, key)
            /\ (ret'.loads >= 1 /\ r.err = NoErr) =>
                  /\ ret'.err = NoErr
                  /\ Cached(ms'.messages, key)]_vars

\* A call whose load failed, made when other keys were in the cache: they
\* are still there, and its own key is not.
C3_Witness ==
    /\ ret.op = "TranslateMsg"
    /\ ret.err = LoaderError
    /\ ret.val = ""
    /\ ms.messages # EmptyKV
    /\ ~Cached(ms.messages, CacheKey(ret.category, ret.lang))

\* C4, as made: for a lang longer than its two-character prefix LoadMsgs
\* returns the table of the lang file merged with that of the prefix file,
\* and the prefix file's table when the lang file is absent.
C4_SpecificOverGeneric ==
    (ret.op = "LoadMsgs" /\ ret.lang # Slice(ret.lang, 0, 2) /\ NoFault) =>
        /\ ret.err = NoErr
        /\ ret.msgs = Merged(FileOf(ret.category, ret.lang),
                             FileOf(ret.category, Slice(ret.lang, 0, 2)))

\* C4, amended: the same, except that LoadMsgs fails with the "Fallback file
\* does not exist as well" error when both files are absent and the prefix
\* is neither SourceLang nor the two-character prefix of SourceLang.
C4_SpecificOverGenericOrMissing ==
    (ret.op = "LoadMsgs" /\ ret.lang # Slice(ret.lang, 0, 2) /\ NoFault) =>
        LET prefix == Slice(ret.lang, 0, 2)
            primary == FileOf(ret.category, ret.lang)
            fallback == FileOf(ret.category, prefix)
        IN  IF /\ primary.isNil
               /\ fallback.isNil
               /\ prefix # ms.SourceLang
               /\ prefix # Slice(ms.SourceLang, 0, 2)
            THEN /\ ret.msgs = NilMsgs
                 /\ ret.err = FallbackMissingError(
                                  ret.category,
                                  GetMsgFilePath(ret.category, ret.lang),
                                  GetMsgFilePath(ret.category, prefix))
            ELSE /\ ret.err = NoErr
                 /\ ret.msgs = Merged(primary, fallback)

\* LoadMsgs of "en-US" where the specific file has a value and a gap and the
\* generic file has other values for both keys.
C4_Witness ==
    /\ ret.op = "LoadMsgs"
    /\ ret.lang = "en-US"
    /\ NoFault
    /\ FileOf(ret.category, "en-US")
           = MakeMsgs([k \in Keys |-> IF k = "hello" THEN "Hello" ELSE ""])
    /\ FileOf(ret.category, "en") = MakeMsgs([k \in Keys |-> "Hallo"])
    /\ ret.msgs
           = MakeMsgs([k \in Keys |-> IF k = "hello" THEN "Hello" ELSE "Hallo"])

\* C9: for a lang that is its own two-character prefix and the prefix of
\* SourceLang, LoadMsgs returns the lang file's table with its gaps filled
\* from the SourceLang file: every key has the lang file's value when that
\* is not empty, and else the SourceLang file's.
C9_GenericOfSourceLang ==
    (/\ ret.op = "LoadMsgs"
     /\ ret.lang = Slice(ret.lang, 0, 2)
     /\ ret.lang = Slice(ms.SourceLang, 0, 2)
     /\ NoFault) =>
        LET primary == FileOf(ret.category, ret.lang)
            source == FileOf(ret.category, ms.SourceLang)
        IN  /\ ret.err = NoErr
            /\ ret.loads = 2
            /\ \A k \in Keys :
                  ValueOf(ret.msgs, k) = IF ValueOf(primary, k) # ""
                                         THEN ValueOf(primary, k)
                                         ELSE ValueOf(source, k)
            /\ \A k \in Keys : HasKey(primary, k) => HasKey(ret.msgs, k)

\* LoadMsgs of "en" with SourceLang "en-GB", where the "en" file has a value
\* and a gap and the "en-GB" file has other values for both keys.
C9_Witness ==
    /\ ret.op = "LoadMsgs"
    /\ ret.lang = "en"
    /\ ms.SourceLang = "en-GB"
    /\ NoFault
    /\ FileOf(ret.category, "en")
           = MakeMsgs([k \in Keys |-> IF k = "hello" THEN "" ELSE "Hello"])
    /\ FileOf(ret.category, "en-GB") = MakeMsgs([k \in Keys |-> "Hallo"])
    /\ ret.msgs
           = MakeMsgs([k \in Keys |-> IF k = "hello" THEN "Hallo" ELSE "Hello"])

\* C10: for a lang that is its own two-character prefix and not the prefix of
\* SourceLang, LoadMsgs calls the loader once; it fails with the "does not
\* exist" error exactly when the loader returns no table and no error, and
\* returns the table the loader returned otherwise.
C10_GenericUnrelated ==
    (/\ ret.op = "LoadMsgs"
     /\ ret.lang = Slice(ret.lang, 0, 2)
     /\ ret.lang # Slice(ms.SourceLang, 0, 2)) =>
        LET msgFile == GetMsgFilePath(ret.category, ret.lang)
            missing == "the message file for category " \o ret.category
                           \o " does not exist: " \o msgFile
            held == FileOf(ret.category, ret.lang)
        IN  /\ ret.loads = 1
            /\ ret.err = missing <=> (NoFault /\ held.isNil)
            /\ (NoFault /\ ~held.isNil) =>
                    (ret.err = NoErr /\ ret.msgs = held)

\* LoadMsgs of "fr" with SourceLang "en-GB" and no "fr" file: the failure.
C10_Witness ==
    /\ ret.op = "LoadMsgs"
    /\ ret.lang = "fr"
    /\ ms.SourceLang = "en-GB"
    /\ NoFault
    /\ FileOf(ret.category, "fr").isNil
    /\ ret.err # NoErr
    /\ ret.loads = 1

\* The language whose file LoadMsgs consults as the fallback of lang.
FallbackLangOf(lang) ==
    IF lang # Slice(lang, 0, 2) THEN Slice(lang, 0, 2) ELSE ms.SourceLang

\* The last call was a LoadMsgs that consulted a fallback file, and the
\* loader returned no table for the file of lang nor for the fallback file.
BothMissing ==
    /\ ret.op = "LoadMsgs"
    /\ ret.loads = 2
    /\ FileOf(ret.category, ret.lang).isNil
    /\ loadFunc(GetMsgFilePath(ret.category, FallbackLangOf(ret.lang)),
                FaultAt(ret, 2)).msgs.isNil

\* C11, as made: whenever LoadMsgs consults a fallback file and the loader
\* returns no table for the primary file nor for the fallback file, LoadMsgs
\* fails with a "does not exist" error and returns no table.
C11_BothMissingFails ==
    BothMissing =>
        /\ ret.msgs = NilMsgs
        /\ ret.err \in
              {FallbackMissingError(
                   ret.category, GetMsgFilePath(ret.category, ret.lang),
                   GetMsgFilePath(ret.category, FallbackLangOf(ret.lang))),
               MissingError(ret.category,
                            GetMsgFilePath(ret.category, ret.lang))}

\* C11, amended: in that case LoadMsgs fails with the "Fallback file does
\* not exist as well" error when the fallback language is neither SourceLang
\* nor the two-character prefix of SourceLang, and returns the nil table and
\* no error when it is one of them.
C11_BothMissingFailsUnlessSource ==
    BothMissing =>
        LET fallbackLang == FallbackLangOf(ret.lang)
        IN  /\ ret.msgs = NilMsgs
            /\ ret.err =
                  IF /\ fallbackLang # ms.SourceLang
                     /\ fallbackLang # Slice(ms.SourceLang, 0, 2)
                  THEN FallbackMissingError(
                           ret.category,
                           GetMsgFilePath(ret.category, ret.lang),
                           GetMsgFilePath(ret.category, fallbackLang))
                  ELSE NoErr

\* LoadMsgs of "en-US" with SourceLang "fr" and neither the "en-US" nor the
\* "en" file: the failure.
C11_Witness ==
    /\ BothMissing
    /\ ret.lang = "en-US"
    /\ ms.SourceLang = "fr"
    /\ ret.err # NoErr
    /\ ret.msgs = NilMsgs

\* The last call went through TranslateMsg.
Translated == ret.op \in {"TranslateMsg", "Translate"}

\* C12, as made: every error the loader returns during a resolution, for the
\* primary file or for a fallback file, is returned unchanged to the caller.
C12_LoaderErrorsPropagate ==
    (Translated /\ ~NoFault) => (ret.err = LoaderError /\ ret.val = "")

\* C12, amended: an error the loader returns for the primary file is
\* returned unchanged, and no fallback file is read; an error the loader
\* returns for the fallback file is dropped, so the call returns no error or
\* the "Fallback file does not exist as well" error.
C12_PrimaryErrorsPropagate ==
    Translated =>
        /\ FaultAt(ret, 1) # "none" =>
              (ret.err = LoaderError /\ ret.val = "" /\ ret.loads = 1)
        /\ FaultAt(ret, 2) # "none" =>
              ret.err \in
                  {NoErr,
                   FallbackMissingError(
                       ret.category, GetMsgFilePath(ret.category, ret.lang),
                       GetMsgFilePath(ret.category,
                                      FallbackLangOf(ret.lang)))}

\* A call whose loader failed on the fallback file and handed a table over
\* all the same: the call returned a value of that table and no error.
C12_Witness ==
    /\ ret.op = "TranslateMsg"
    /\ ret.faults = <<"none", "err_tbl">>
    /\ FileOf(ret.category, ret.lang).isNil
    /\ ret.val = "Hello"
    /\ ret.err = NoErr

\* The part of category after its first '.'.
SuffixOf(category) ==
    Slice(category, Index(category, ".") + 1, Len(category))

\* C13: GetMsgFilePath(category, lang) returns BasePath/lang/ followed by
\* FileMap[suffix] when FileMap has an entry for the suffix of category, and
\* otherwise by the suffix with every backslash replaced by '/', and by "."
\* and fileSuffix when fileSuffix is not empty.
C13_MsgFilePath ==
    ret.op = "GetMsgFilePath" =>
        LET suffix == SuffixOf(ret.category)
            dir == ms.BasePath \o "/" \o ret.lang \o "/"
        IN  ret.val =
              IF suffix \in DOMAIN ms.FileMap
              THEN dir \o ms.FileMap[suffix]
              ELSE dir \o Replace(suffix, "\\", "/")
                       \o (IF ms.fileSuffix # "" THEN "." \o ms.fileSuffix
                           ELSE "")

\* C14: Translate with lang equal to SourceLang and ForceTranslation false
\* returns ("", nil), calls no loader and leaves the cache as it was; in
\* every other case it returns what TranslateMsg returns, and does to the
\* cache what TranslateMsg does.
C14_TranslateShortcut ==
    [][ret'.op = "Translate" =>
        IF ret'.lang = ms.SourceLang /\ ~ms.ForceTranslation
        THEN /\ ret'.val = ""
             /\ ret'.err = NoErr
             /\ ret'.loads = 0
             /\ ms' = ms
        ELSE LET r == TranslateMsgOn(ms.messages, ret'.category, ret'.message,
                                     ret'.lang, FaultAt(ret', 1),
                                     FaultAt(ret', 2))
             IN  /\ ret'.val = r.val
                 /\ ret'.err = r.err
                 /\ ret'.loads = r.loads
                 /\ ms'.messages = r.messages]_vars

\* A Translate for SourceLang without ForceTranslation, made when the cache
\* held other keys and not the key of the call, which TranslateMsg would
\* have loaded.
C14_Witness ==
    /\ ret.op = "Translate"
    /\ ret.lang = ms.SourceLang
    /\ ~ms.ForceTranslation
    /\ ret.loads = 0
    /\ ret.val = ""
    /\ ms.messages # EmptyKV
    /\ ~Cached(ms.messages, CacheKey(ret.category, ret.lang))
    /\ ~FileOf(ret.category, ret.lang).isNil

\* C15: when TranslateMsg(category, m, lang) finds m absent from the table
\* of (category, lang), or mapped to the empty string, it returns ("", nil)
\* and leaves the cache entry of (category, lang) equal to the one-entry
\* table {m: ""}; the entries of the other keys are as they were.
C15_MissingKeyOverwrites ==
    [][ret'.op = "TranslateMsg" =>
        LET key == CacheKey(ret'.category, ret'.lang)
            r == LoadMsgs(ret'.category, ret'.lang, FaultAt(ret', 1),
                          FaultAt(ret', 2))
            found == Cached(ms.messages, key) \/ r.err = NoErr
            table == IF Cached(ms.messages, key) THEN ms.messages[key]
                     ELSE r.msgs
        IN  (found /\ ValueOf(table, ret'.message) = "") =>
                /\ ret'.val = ""
                /\ ret'.err = NoErr
                /\ DOMAIN ms'.messages = (DOMAIN ms.messages) \cup {key}
                /\ ms'.messages[key] = MakeMsgs([k \in {ret'.message} |-> ""])
                /\ \A k \in (DOMAIN ms.messages) \ {key} :
                       ms'.messages[k] = ms.messages[k]]_vars

\* A call for "bye" that loaded a table holding "hello" and not "bye", made
\* when the cache held another key: the entry is {bye: ""}.
C15_Witness ==
    /\ ret.op = "TranslateMsg"
    /\ ret.message = "bye"
    /\ ret.loads = 2
    /\ ret.err = NoErr
    /\ ValueOf(LoadMsgs(ret.category, ret.lang, "none", "none").msgs, "hello")
           = "Hello"
    /\ Cardinality(DOMAIN ms.messages) >= 2
    /\ ms.messages[CacheKey(ret.category, ret.lang)]
           = MakeMsgs([k \in {"bye"} |-> ""])

\* C16: an error the loader returns for the fallback file never makes
\* LoadFallbackMsgs fail: the outcome is the one of a loader that returned
\* the same fallback table and no error, which is the "Fallback file does
\* not exist as well" error when neither file yielded a table and the
\* fallback language is unrelated to SourceLang, and else the primary table
\* with its gaps filled from the fallback table.
C16_FallbackErrorSwallowed ==
    (ret.op = "LoadMsgs" /\ ret.loads = 2 /\ FaultAt(ret, 2) # "none") =>
        LET fallbackLang == FallbackLangOf(ret.lang)
            primary == FileOf(ret.category, ret.lang)
            fallback == IF FaultAt(ret, 2) = "err_nil" THEN NilMsgs
                        ELSE FileOf(ret.category, fallbackLang)
        IN  IF /\ primary.isNil
               /\ fallback.isNil
               /\ fallbackLang # ms.SourceLang
               /\ fallbackLang # Slice(ms.SourceLang, 0, 2)
            THEN /\ ret.msgs = NilMsgs
                 /\ ret.err = FallbackMissingError(
                                  ret.category,
                                  GetMsgFilePath(ret.category, ret.lang),
                                  GetMsgFilePath(ret.category, fallbackLang))
            ELSE /\ ret.err = NoErr
                 /\ ret.msgs = Merged(primary, fallback)

\* LoadMsgs of "en-US" whose loader failed on the "en" file and handed its
\* table over all the same: the gap of the "en-US" table is filled from it.
C16_Witness ==
    /\ ret.op = "LoadMsgs"
    /\ ret.lang = "en-US"
    /\ ret.faults = <<"none", "err_tbl">>
    /\ FileOf(ret.category, "en-US")
           = MakeMsgs([k \in Keys |-> IF k = "hello" THEN "Hello" ELSE ""])
    /\ FileOf(ret.category, "en") = MakeMsgs([k \in Keys |-> "Hallo"])
    /\ ret.err = NoErr
    /\ ret.msgs
           = MakeMsgs([k \in Keys |-> IF k = "hello" THEN "Hello" ELSE "Hallo"])

\* Both concurrent calls have returned.
AllDone == \A g \in Goroutines : inflight[g].pc = "done"

\* What the concurrent calls returned and the cache they left.
RaceOutcome ==
    [out |-> [g \in Goroutines |-> inflight[g].out],
     err |-> [g \in Goroutines |-> inflight[g].err],
     messages |-> ms.messages]

\* The outcome of the call of goroutine g followed by that of goroutine h,
\* rg and rh being what the two calls did.
SeqResults(g, h, rg, rh) ==
    [out |-> [k \in Goroutines |-> IF k = g THEN rg.val ELSE rh.val],
     err |-> [k \in Goroutines |-> IF k = g THEN rg.err ELSE rh.err],
     messages |-> rh.messages]

\* The call of goroutine h made after that of g, which did rg.
SeqSecond(g, h, rg) ==
    SeqResults(g, h, rg,
               TranslateMsgOn(rg.messages, inflight[h].category,
                              inflight[h].message, inflight[h].lang,
                              "none", "none"))

\* The call of goroutine g made on the empty cache, then that of h.
SeqOutcome(g, h) ==
    SeqSecond(g, h,
              TranslateMsgOn(EmptyKV, inflight[g].category,
                             inflight[g].message, inflight[g].lang,
                             "none", "none"))

\* C19, as made: when two TranslateMsg calls for the same category and lang
\* are interleaved step by step, with a loader that returns the same tables
\* on every call, the two return values and the final cache are those of
\* one of the two sequential orders of the calls.
C19_InterleavedAsSequential ==
    AllDone => RaceOutcome \in {SeqOutcome(1, 2), SeqOutcome(2, 1)}

\* The return values of an outcome, without the cache.
Returns(o) == [out |-> o.out, err |-> o.err]

\* C19, amended: the two return values are those of one of the two
\* sequential orders, and the final cache holds, besides what was there, the
\* one entry of the calls' key, which is the entry one of the sequential
\* orders leaves or else the whole table LoadMsgs returned: a call that
\* loaded may write its table over the one-entry table the other call left.
C19_ReturnsAsSequential ==
    AllDone =>
        /\ Returns(RaceOutcome)
              \in {Returns(SeqOutcome(1, 2)), Returns(SeqOutcome(2, 1))}
        /\ \/ ms.messages \in {SeqOutcome(1, 2).messages,
                                SeqOutcome(2, 1).messages}
           \/ /\ LoadMsgs(inflight[1].category, inflight[1].lang,
                           "none", "none").err = NoErr
              /\ ms.messages =
                    Store(EmptyKV,
                          CacheKey(inflight[1].category, inflight[1].lang),
                          LoadMsgs(inflight[1].category, inflight[1].lang,
                                   "none", "none").msgs)

\* Two calls that both loaded: the one for "hello" stored its table after
\* the other had left {bye: ""}, and the cache holds the loaded table.
C19_Witness ==
    /\ AllDone
    /\ inflight[1].message = "bye"
    /\ inflight[2].message = "hello"
    /\ inflight[1].out = ""
    /\ inflight[2].out = "Hello"
    /\ ms.messages[CacheKey(inflight[1].category, inflight[1].lang)]
           = MakeMsgs([k \in {"hello"} |-> "Hello"])

-----------------------------------------------------------------------------
(* Bounds of the tokenizer runs *)

MaxLen == 5
MaxIter == 42

\* The width of depth in bits.  Go's int has 32 or 64 bits and wraps around
\* on overflow; the runs take a width whose wrap-around they reach.
IntBits == 3

Alphabet == {"{", "}", "a"}

RECURSIVE StringsUpTo(_)
StringsUpTo(n) ==
    IF n = 0 THEN {""}
    ELSE LET shorter == StringsUpTo(n - 1)
         IN  shorter \cup {s \o c : s \in shorter, c \in Alphabet}

\* The patterns format is called with: every string over the alphabet up to
\* MaxLen, and the patterns the documentation names.
Patterns ==
    StringsUpTo(MaxLen) \cup {"Hello, {name}!", "{a{b}c}", "{a{b}", "a}"}

-----------------------------------------------------------------------------
(* Formatter.format and Formatter.tokenizePattern *)

\* format, given what tokenizePattern returned.
format(toks) ==
    IF toks = Nil
    THEN [val |-> "", err |-> "message pattern is invalid"]
    ELSE [val |-> Join(toks), err |-> NoErr]

\* The int n + d as Go computes it: in two's complement, IntBits wide.
WrapAdd(n, d) ==
    ((n + d + 2^(IntBits - 1)) % 2^IntBits) - 2^(IntBits - 1)

\* The MessageSource while the formatter runs: constructed, never called.
SrcIdle ==
    /\ ms = [SourceLang |-> "en-US", ForceTranslation |-> FALSE,
             BasePath |-> "", FileMap |-> EmptyKV, fileSuffix |-> "",
             messages |-> EmptyKV]
    /\ files = EmptyKV
    /\ succeeded = {}
    /\ ret = NoCall
    /\ inflight = NoneInFlight

TokInit ==
    /\ SrcIdle
    /\ pattern \in Patterns
    /\ pos = 0
    /\ start = 0
    /\ depth = 0
    /\ tokens = <<>>
    /\ iters = 0
    /\ pc = "call"
    /\ fmtRet = [val |-> "", err |-> NoErr]

\* tokenizePattern up to the scanning loop.
TokenizeEnter ==
    /\ pc = "call"
    /\ LET p == Index(pattern, "{")
       IN  IF p = -1
           THEN /\ tokens' = <<pattern>>
                /\ pc' = "return"
                /\ fmtRet' = format(<<pattern>>)
                /\ UNCHANGED <<pos, start, depth>>
           ELSE /\ pos' = p
                /\ start' = p
                /\ depth' = 1
                /\ tokens' = <<Slice(pattern, 0, p)>>
                /\ pc' = "loop"
                /\ UNCHANGED fmtRet
    /\ UNCHANGED <<pattern, iters>>
    /\ UNCHANGED srcVars

\* LeaveLoop without the test of depth: the tokens gathered so far are returned.
LeaveLoopAnyDepth ==
    /\ tokens' = tokens
    /\ fmtRet' = format(tokens)
    /\ pc' = "return"
    /\ UNCHANGED <<pos, start, depth>>

\* What the function returns once the loop is left, and format with it.
LeaveLoop ==
    /\ tokens' = IF depth # 0 THEN Nil ELSE tokens
    /\ fmtRet' = format(IF depth # 0 THEN Nil ELSE tokens)
    /\ pc' = "return"
    /\ UNCHANGED <<pos, start, depth>>

\* One iteration of the scanning loop.
TokenizeLoop ==
    /\ pc = "loop"
    /\ iters < MaxIter
    /\ iters' = iters + 1
    /\ UNCHANGED pattern
    /\ UNCHANGED srcVars
    /\ LET length == Len(pattern)
           rest == Slice(pattern, pos + 1, length)
           open0 == Index(rest, "{")
           closing == Index(rest, "}")
           open == IF open0 = -1 THEN length ELSE open0
           depth1 == IF closing > open THEN WrapAdd(depth, 1)
                     ELSE WrapAdd(depth, -1)
           pos1 == IF closing > open THEN open ELSE closing
       IN  IF pos + 1 > length
           THEN LeaveLoop
           ELSE IF open0 = -1 /\ closing = -1
           THEN LeaveLoop
           ELSE IF depth1 = 0 /\ ~SliceOK(pattern, pos1 + 1, open)
           THEN /\ pc' = "panic"
                /\ pos' = pos1
                /\ depth' = depth1
                /\ start' = pos1 + 1
                /\ UNCHANGED <<tokens, fmtRet>>
           ELSE IF depth1 = 0
           THEN /\ pos' = pos1
                /\ depth' = depth1
                /\ start' = open
                /\ tokens' = Append(tokens, Slice(pattern, pos1 + 1, open))
                /\ UNCHANGED <<pc, fmtRet>>
           ELSE IF open = -1 \/ closing = -1
           THEN /\ tokens' = Nil
                /\ fmtRet' = format(Nil)
                /\ pc' = "return"
                /\ pos' = pos1
                /\ depth' = depth1
                /\ UNCHANGED start
           ELSE /\ pos' = pos1
                /\ depth' = depth1
                /\ UNCHANGED <<start, tokens, pc, fmtRet>>

TokNext == TokenizeEnter \/ TokenizeLoop

SpecTok == TokInit /\ [][TokNext]_vars

-----------------------------------------------------------------------------
(* What the documentation says of the tokenizer *)

\* The pattern has no opening brace.
NoOpen(p) == \A i \in 0..(Len(p) - 1) : CharAt(p, i) # "{"

\* The nesting depth after the first n characters of p, -1 once a closing
\* brace had no opening brace before it.
RECURSIVE DepthAfter(_, _)
DepthAfter(p, n) ==
    IF n = 0 THEN 0
    ELSE LET d == DepthAfter(p, n - 1)
             ch == CharAt(p, n - 1)
         IN  IF d = -1 THEN -1
             ELSE IF ch = "{" THEN d + 1
             ELSE IF ch = "}" THEN d - 1
             ELSE d

\* The braces of p are balanced.
Balanced(p) == DepthAfter(p, Len(p)) = 0

\* The tokens the documentation gives a balanced pattern: the scan of p from
\* its i-th character on, at nesting depth d, cur being the literal or the
\* placeholder body gathered so far.
RECURSIVE Scan(_, _, _, _)
Scan(p, i, d, cur) ==
    IF i = Len(p) THEN <<cur>>
    ELSE LET ch == CharAt(p, i)
         IN  IF ch = "{" /\ d = 0 THEN <<cur>> \o Scan(p, i + 1, 1, "")
             ELSE IF ch = "{" THEN Scan(p, i + 1, d + 1, cur \o ch)
             ELSE IF ch = "}" /\ d = 1 THEN <<cur>> \o Scan(p, i + 1, 0, "")
             ELSE IF ch = "}" THEN Scan(p, i + 1, d - 1, cur \o ch)
             ELSE Scan(p, i + 1, d, cur \o ch)

ExpectedTokens(p) == Scan(p, 0, 0, "")

IsPrefix(a, b) == Len(a) <= Len(b) /\ a = SubSeq(b, 1, Len(a))

\* The tokens put together again, every token at an odd position (counted
\* from 0) between braces; i is the position of the first of toks.
RECURSIVE Rebuild(_, _)
Rebuild(toks, i) ==
    IF toks = <<>> THEN ""
    ELSE (IF i % 2 = 1 THEN "{" \o Head(toks) \o "}" ELSE Head(toks))
             \o Rebuild(Tail(toks), i + 1)

\* C5: for a pattern with an opening brace and balanced braces,
\* tokenizePattern returns lit0, body1, lit1, ..., bodyN, litN.  The tokens
\* are only ever appended to, so a call that returns them holds a prefix of
\* them at every iteration, and it does not stop in a run-time panic.
C5_BalancedTokens ==
    (~NoOpen(pattern) /\ Balanced(pattern)) =>
        /\ pc # "panic"
        /\ pc = "loop" => IsPrefix(tokens, ExpectedTokens(pattern))
        /\ pc = "return" => tokens = ExpectedTokens(pattern)

\* C6: for a pattern whose braces are unbalanced, tokenizePattern returns nil
\* and format returns the empty string with "message pattern is invalid".
C6_UnbalancedFails ==
    (pc = "return" /\ ~Balanced(pattern)) =>
        /\ tokens = Nil
        /\ fmtRet = [val |-> "", err |-> "message pattern is invalid"]

\* C7: when tokenizePattern returns tokens, putting them together with the
\* braces back around every odd-position token gives the pattern.
C7_RoundTrip ==
    (pc = "return" /\ tokens # Nil) => Rebuild(tokens, 0) = pattern

\* A call that returned tokens for a pattern with a closing brace in it.
C7_Witness ==
    /\ pc = "return"
    /\ tokens # Nil
    /\ pattern = "}a}"

\* C8: for a pattern with no opening brace tokenizePattern returns the one
\* token that is the pattern, and neither it nor format fails.
C8_NoBraceOneToken ==
    NoOpen(pattern) =>
        /\ pc \in {"call", "return"}
        /\ pc = "return" => (tokens = <<pattern>> /\ fmtRet.err = NoErr)

\* A call that returned for the pattern "a}", and one for the empty pattern.
C8_Witness ==
    /\ pc = "return"
    /\ pattern \in {"a}", ""}
    /\ Len(tokens) = 1

\* The number of values the pair of pos and depth can take in the loop: pos
\* is -1 or an index into the pattern or its length.
ControlStates(p) == (Len(p) + 2) * 2^IntBits

\* C17: tokenizePattern terminates on every pattern: its loop reaches one of
\* its exits after finitely many iterations.  What an iteration does to pos
\* and depth, and whether it leaves the loop, depends on pos and depth alone;
\* so a loop that terminates does so before it has made more iterations than
\* there are pairs of pos and depth, and one that has made more has been at
\* the same pair twice and goes round for ever.
C17_Terminates ==
    pc = "loop" => iters <= ControlStates(pattern)

\* C18: every slice expression tokenizePattern evaluates has bounds with
\* 0 <= low <= high <= len(pattern): the call never stops in a run-time
\* panic, pattern[pos+1:] is in bounds whenever the loop evaluates it, and
\* depth is never 0 with pos at the opening brace it was raised through,
\* where pattern[start:open] would have start = open + 1.
C18_SlicesInBounds ==
    /\ pc # "panic"
    /\ (pc = "loop" /\ pos + 1 <= Len(pattern)) =>
           SliceOK(pattern, pos + 1, Len(pattern))

=============================================================================
